---- MODULE Spec2Model ----
(***************************************************************************)
(* Model of torchelastic/distributed/app/api.py: the role accessors, the   *)
(* fan-out RPC calls (rpc_async_on_role, rpc_sync_on_role, remote_on_role) *)
(* and wait_all, run by one application thread against a Transport         *)
(* (torch.distributed.rpc) whose futures complete concurrently.            *)
(*                                                                         *)
(* get_role_info in the source is a placeholder that returns an empty      *)
(* RoleInfo for every role.  The variable registry says which directory    *)
(* the accessors read: "placeholder" is the source as written, "built" is  *)
(* the populated RoleDirectory the specification describes (section 4.1).  *)
(***************************************************************************)
EXTENDS Integers, Sequences, FiniteSets, TLC

VARIABLES
    registry,        \* "placeholder" (api.py:105) or "built" (spec 4.1)
    directory,       \* declared configuration: role name -> worker names, by role_rank
    op,              \* API function the application thread is in / was last in
    role,            \* its role argument
    func,            \* its func argument (opaque token for func, args, kwargs)
    timeout_arg,     \* its timeout argument as passed (None when absent)
    timeout,         \* local `timeout` of rpc_async_on_role after line 154
    pc,              \* "idle", "dispatch" (fan-out loop), "wait" (wait_all loop)
    names,           \* list the fan-out loop iterates / get_worker_names result
    idx,             \* position of the running loop (1-based)
    futs,            \* dict name -> future, in insertion order: `futures`
    rrefs,           \* dict name -> RRef, in insertion order: `rrefs`
    results,         \* dict name -> value built by wait_all: `results`
    info,            \* RoleInfo returned by get_role_info / read at call time
    status,          \* "none", "returned" or "raised": how the last call ended
    error,           \* the exception that left the call ("" when none)
    sent,            \* Transport calls issued by the current / last API call
    ncalls,          \* number of API calls made so far
    ipc,             \* per process: where it is in init_rpc
    options,         \* per process: backend_options of init_rpc after line 62
    autograd,        \* processes that have run dist_autograd._init
    store,           \* processes that have joined the RPC group through the store
    app              \* processes whose init_app has returned

\* State of the application's API calls, and state of process start-up.
api == <<registry, directory, op, role, func, timeout_arg, timeout, pc, names,
         idx, futs, rrefs, results, info, status, error, sent, ncalls>>

startup == <<ipc, options, autograd, store, app>>

vars == <<api, startup>>

\* ---------------------------------------------------------------- bounds
MaxCalls == 2

WorldSize == 3                  \* WORLD_SIZE: number of processes started

\* ------------------------------------------------------------- constants
None == -1                      \* Python None for the timeout argument
DefaultRpcTimeout == 60         \* value of torch_rpc.get_rpc_timeout()

RoleNames == {"trainer", "ps", "ghost"}     \* role arguments tried
Funcs     == {"echo", "sum"}                \* func/args payloads tried
Timeouts  == {None, 1}                      \* timeout arguments tried

DirA == [trainer |-> <<"w0", "w1">>, ps |-> <<"w2", "w3">>]
DirB == [trainer |-> <<"w1", "w2", "w0">>, ps |-> <<"w3">>]
Directories == {DirA, DirB}

Rank == [w0 |-> 0, w1 |-> 1, w2 |-> 2, w3 |-> 3]     \* global rank of each worker
Workers == DOMAIN Rank

\* The value the remote function returns on worker w: each worker answers
\* with a value of its own.
ValueOn == [w \in Workers |-> 40 + Rank[w]]

\* ------------------------------------------------------- data structures
\* class WorkerInfo
WorkerInfo(name, id, rank, role_rank) ==
    [name |-> name, id |-> id, rank |-> rank, role_rank |-> role_rank]

\* class RoleInfo
RoleInfo(name, role_world_size, local_world_size, worker_infos) ==
    [name |-> name, role_world_size |-> role_world_size,
     local_world_size |-> local_world_size, worker_infos |-> worker_infos]

NoInfo == RoleInfo("", 0, 0, <<>>)

\* Python dict with insertion order: a sequence of [key, val] entries.
DictKeys(d) == [i \in 1..Len(d) |-> d[i].key]

DictKeySet(d) == {d[i].key : i \in 1..Len(d)}

DictHas(d, k) == \E i \in 1..Len(d) : d[i].key = k

\* d[k] = v: replaces the value of an existing key in place, else appends.
DictSet(d, k, v) ==
    IF DictHas(d, k)
    THEN [i \in 1..Len(d) |-> IF d[i].key = k THEN [key |-> k, val |-> v] ELSE d[i]]
    ELSE Append(d, [key |-> k, val |-> v])

\* ------------------------------------------------------------- accessors
\* get_role_info as written: a placeholder, the same for every role.
get_role_info(r) == RoleInfo(r, 0, 0, <<>>)

\* RoleDirectory.get_role_info of the specification, for a declared role.
RoleDirectory_get_role_info(r) ==
    RoleInfo(r, Len(directory[r]), Len(directory[r]),
             [i \in 1..Len(directory[r]) |->
                 WorkerInfo(directory[r][i], Rank[directory[r][i]],
                            Rank[directory[r][i]], i - 1)])

Declared(r) == r \in DOMAIN directory

\* UnknownRole is raised only by the built directory; the placeholder
\* never raises.
RaisesUnknownRole(r) == registry = "built" /\ ~Declared(r)

RoleInfoOf(r) ==
    IF registry = "placeholder" THEN get_role_info(r)
    ELSE IF Declared(r) THEN RoleDirectory_get_role_info(r)
    ELSE NoInfo

\* Variant of get_worker_names that returns the names in global rank
\* order (`sorted(...)`) instead of the order of worker_infos.
get_worker_names_by_rank(r) ==
    [i \in 1..Len(RoleInfoOf(r).worker_infos) |->
        CHOOSE w \in {RoleInfoOf(r).worker_infos[j].name :
                         j \in 1..Len(RoleInfoOf(r).worker_infos)} :
            Cardinality({RoleInfoOf(r).worker_infos[j].name :
                            j \in {k \in 1..Len(RoleInfoOf(r).worker_infos) :
                                     RoleInfoOf(r).worker_infos[k].rank < Rank[w]}}) = i - 1]

\* [info.name for info in get_role_info(role).worker_infos]
get_worker_names(r) ==
    [i \in 1..Len(RoleInfoOf(r).worker_infos) |-> RoleInfoOf(r).worker_infos[i].name]

\* ------------------------------------------------------------- Transport
\* torch_rpc.get_rpc_timeout()
get_rpc_timeout == DefaultRpcTimeout

\* torch_rpc.rpc_async(to, func, args, kwargs, timeout): the future handed
\* back.  A destination that cannot be reached at call time gives a future
\* that is already failed.
rpc_async(to, f, t, reachable) ==
    [to |-> to, func |-> f, timeout |-> t,
     state |-> IF reachable THEN "Pending" ELSE "Failed",
     error |-> IF reachable THEN "" ELSE "DestinationUnreachable",
     value |-> 0]

\* torch_rpc.remote(to, func, args, kwargs): the RRef handed back.
remote(to, f) == [owner |-> to, func |-> f, state |-> "Pending"]

Terminal(fut) == fut.state # "Pending"

\* Global ranks of the processes (RANK of each).
Procs == 0..(WorldSize - 1)

TypeOK ==
    /\ registry \in {"placeholder", "built"}
    /\ directory \in Directories
    /\ pc \in {"idle", "dispatch", "wait"}
    /\ status \in {"none", "returned", "raised"}
    /\ idx \in 1..5
    /\ ncalls \in 0..MaxCalls
    /\ ipc \in [Procs -> {"start", "env", "autograd", "rpc_sync", "returned", "raised"}]
    /\ options \in [Procs -> {"unset", "given", "constructed"}]
    /\ autograd \subseteq Procs /\ store \subseteq Procs /\ app \subseteq Procs

\* The application has made no API call yet.
ApiInit ==
    /\ registry \in {"placeholder", "built"}
    /\ directory \in Directories
    /\ op = "none" /\ role = "" /\ func = "" /\ timeout_arg = None
    /\ timeout = None /\ pc = "idle" /\ names = <<>> /\ idx = 1
    /\ futs = <<>> /\ rrefs = <<>> /\ results = <<>> /\ info = NoInfo
    /\ status = "none" /\ error = "" /\ sent = <<>> /\ ncalls = 0

\* Every process has been through init_rpc and init_app.
StartupDone ==
    /\ ipc = [p \in Procs |-> "returned"]
    /\ options = [p \in Procs |-> "constructed"]
    /\ autograd = Procs /\ store = Procs /\ app = Procs

\* API calls are made by an application whose processes have started.
Init == ApiInit /\ StartupDone

\* ------------------------------------------------- fan-out: rpc calls
\* Variant of the entry that hands the timeout argument on as passed,
\* without the `if timeout is None` defaulting of lines 152-154.
rpc_async_on_role_call_no_default(o, r, f, t) ==
    /\ pc = "idle" /\ ncalls < MaxCalls
    /\ o \in {"rpc_async_on_role", "rpc_sync_on_role"}
    /\ op' = o /\ role' = r /\ func' = f /\ timeout_arg' = t
    /\ timeout' = t
    /\ futs' = <<>> /\ results' = <<>> /\ sent' = <<>> /\ idx' = 1
    /\ ncalls' = ncalls + 1
    /\ IF RaisesUnknownRole(r)
       THEN /\ status' = "raised" /\ error' = "UnknownRole"
            /\ pc' = "idle" /\ names' = <<>> /\ info' = NoInfo
       ELSE /\ status' = "none" /\ error' = ""
            /\ pc' = "dispatch" /\ names' = get_worker_names(r)
            /\ info' = RoleInfoOf(r)
    /\ rrefs' = <<>>
    /\ UNCHANGED <<startup, registry, directory>>

\* Entry of rpc_async_on_role (lines 152-157), called directly or from
\* rpc_sync_on_role (line 143): default the timeout, read the worker names.
rpc_async_on_role_call(o, r, f, t) ==
    /\ pc = "idle" /\ ncalls < MaxCalls
    /\ o \in {"rpc_async_on_role", "rpc_sync_on_role"}
    /\ op' = o /\ role' = r /\ func' = f /\ timeout_arg' = t
    /\ timeout' = IF t = None THEN get_rpc_timeout ELSE t
    /\ futs' = <<>> /\ results' = <<>> /\ sent' = <<>> /\ idx' = 1
    /\ ncalls' = ncalls + 1
    /\ IF RaisesUnknownRole(r)
       THEN /\ status' = "raised" /\ error' = "UnknownRole"
            /\ pc' = "idle" /\ names' = <<>> /\ info' = NoInfo
       ELSE /\ status' = "none" /\ error' = ""
            /\ pc' = "dispatch" /\ names' = get_worker_names(r)
            /\ info' = RoleInfoOf(r)
    /\ rrefs' = <<>>
    /\ UNCHANGED <<startup, registry, directory>>

\* Variant of the loop body that files every future under the role name
\* instead of the worker name (`futures[role] = fut`).
rpc_async_on_role_loop_keyed_by_role(reachable) ==
    /\ pc = "dispatch"
    /\ op \in {"rpc_async_on_role", "rpc_sync_on_role"}
    /\ idx <= Len(names)
    /\ futs' = DictSet(futs, role, rpc_async(names[idx], func, timeout, reachable))
    /\ sent' = Append(sent, [kind |-> "rpc_async", to |-> names[idx], func |-> func,
                             timeout |-> timeout, dispatched |-> reachable])
    /\ idx' = idx + 1
    /\ UNCHANGED <<startup, registry, directory, op, role, func, timeout_arg, timeout,
                   pc, names, rrefs, results, info, status, error, ncalls>>

\* Variant of the loop body that lets a dispatch failure leave the call as
\* an exception instead of filing the failed future.
rpc_async_on_role_loop_raising(reachable) ==
    /\ pc = "dispatch"
    /\ op \in {"rpc_async_on_role", "rpc_sync_on_role"}
    /\ idx <= Len(names)
    /\ sent' = Append(sent, [kind |-> "rpc_async", to |-> names[idx], func |-> func,
                             timeout |-> timeout, dispatched |-> reachable])
    /\ IF reachable
       THEN /\ futs' = DictSet(futs, names[idx],
                               rpc_async(names[idx], func, timeout, reachable))
            /\ idx' = idx + 1
            /\ UNCHANGED <<pc, status, error>>
       ELSE /\ status' = "raised" /\ error' = "DestinationUnreachable"
            /\ pc' = "idle"
            /\ UNCHANGED <<futs, idx>>
    /\ UNCHANGED <<startup, registry, directory, op, role, func, timeout_arg, timeout,
                   names, rrefs, results, info, ncalls>>

\* Variant of the loop body that waits for the previous future before it
\* issues the next call (`fut.wait()` inside the loop).
rpc_async_on_role_loop_waiting(reachable) ==
    /\ pc = "dispatch"
    /\ op \in {"rpc_async_on_role", "rpc_sync_on_role"}
    /\ idx <= Len(names)
    /\ idx > 1 => Terminal(futs[idx - 1].val)
    /\ futs' = DictSet(futs, names[idx], rpc_async(names[idx], func, timeout, reachable))
    /\ sent' = Append(sent, [kind |-> "rpc_async", to |-> names[idx], func |-> func,
                             timeout |-> timeout, dispatched |-> reachable])
    /\ idx' = idx + 1
    /\ UNCHANGED <<startup, registry, directory, op, role, func, timeout_arg, timeout,
                   pc, names, rrefs, results, info, status, error, ncalls>>

\* Variant of the loop body that issues the call without a timeout.
rpc_async_on_role_loop_no_timeout(reachable) ==
    /\ pc = "dispatch"
    /\ op \in {"rpc_async_on_role", "rpc_sync_on_role"}
    /\ idx <= Len(names)
    /\ futs' = DictSet(futs, names[idx], rpc_async(names[idx], func, None, reachable))
    /\ sent' = Append(sent, [kind |-> "rpc_async", to |-> names[idx], func |-> func,
                             timeout |-> None, dispatched |-> reachable])
    /\ idx' = idx + 1
    /\ UNCHANGED <<startup, registry, directory, op, role, func, timeout_arg, timeout,
                   pc, names, rrefs, results, info, status, error, ncalls>>

\* Variant of the loop body that issues the call a second time when the
\* first attempt could not be dispatched (a retry inside the dispatcher).
rpc_async_on_role_loop_retrying(reachable) ==
    /\ pc = "dispatch"
    /\ op \in {"rpc_async_on_role", "rpc_sync_on_role"}
    /\ idx <= Len(names)
    /\ futs' = DictSet(futs, names[idx], rpc_async(names[idx], func, timeout, reachable))
    /\ sent' = IF reachable
               THEN Append(sent, [kind |-> "rpc_async", to |-> names[idx], func |-> func,
                                  timeout |-> timeout, dispatched |-> TRUE])
               ELSE sent \o << [kind |-> "rpc_async", to |-> names[idx], func |-> func,
                                timeout |-> timeout, dispatched |-> FALSE],
                               [kind |-> "rpc_async", to |-> names[idx], func |-> func,
                                timeout |-> timeout, dispatched |-> FALSE] >>
    /\ idx' = idx + 1
    /\ UNCHANGED <<startup, registry, directory, op, role, func, timeout_arg, timeout,
                   pc, names, rrefs, results, info, status, error, ncalls>>

\* One iteration of `for name in get_worker_names(role)` (lines 157-159).
rpc_async_on_role_loop(reachable) ==
    /\ pc = "dispatch"
    /\ op \in {"rpc_async_on_role", "rpc_sync_on_role"}
    /\ idx <= Len(names)
    /\ futs' = DictSet(futs, names[idx], rpc_async(names[idx], func, timeout, reachable))
    /\ sent' = Append(sent, [kind |-> "rpc_async", to |-> names[idx], func |-> func,
                             timeout |-> timeout, dispatched |-> reachable])
    /\ idx' = idx + 1
    /\ UNCHANGED <<startup, registry, directory, op, role, func, timeout_arg, timeout,
                   pc, names, rrefs, results, info, status, error, ncalls>>

\* `return futures` (line 160) to the application.
rpc_async_on_role_return ==
    /\ pc = "dispatch" /\ op = "rpc_async_on_role"
    /\ idx > Len(names)
    /\ pc' = "idle" /\ status' = "returned"
    /\ UNCHANGED <<startup, registry, directory, op, role, func, timeout_arg, timeout,
                   names, idx, futs, rrefs, results, info, error, sent, ncalls>>

\* Variant of rpc_sync_on_role that returns the futures without waiting
\* (`return futs`).
rpc_sync_on_role_no_wait ==
    /\ pc = "dispatch" /\ op = "rpc_sync_on_role"
    /\ idx > Len(names)
    /\ pc' = "idle" /\ status' = "returned" /\ idx' = 1 /\ results' = <<>>
    /\ UNCHANGED <<startup, registry, directory, op, role, func, timeout_arg, timeout,
                   names, futs, rrefs, info, error, sent, ncalls>>

\* rpc_sync_on_role (lines 143-144): rpc_async_on_role has returned futs,
\* which is handed to wait_all.
rpc_sync_on_role_wait ==
    /\ pc = "dispatch" /\ op = "rpc_sync_on_role"
    /\ idx > Len(names)
    /\ pc' = "wait" /\ idx' = 1 /\ results' = <<>>
    /\ UNCHANGED <<startup, registry, directory, op, role, func, timeout_arg, timeout,
                   names, futs, rrefs, info, status, error, sent, ncalls>>

\* ------------------------------------------- fan-out: remote creation
\* Entry of remote_on_role (lines 164-165).
remote_on_role_call(r, f) ==
    /\ pc = "idle" /\ ncalls < MaxCalls
    /\ op' = "remote_on_role" /\ role' = r /\ func' = f
    /\ rrefs' = <<>> /\ sent' = <<>> /\ idx' = 1
    /\ ncalls' = ncalls + 1
    /\ IF RaisesUnknownRole(r)
       THEN /\ status' = "raised" /\ error' = "UnknownRole"
            /\ pc' = "idle" /\ names' = <<>> /\ info' = NoInfo
       ELSE /\ status' = "none" /\ error' = ""
            /\ pc' = "dispatch" /\ names' = get_worker_names(r)
            /\ info' = RoleInfoOf(r)
    /\ timeout_arg' = None /\ timeout' = None /\ futs' = <<>> /\ results' = <<>>
    /\ UNCHANGED <<startup, registry, directory>>

\* Variant of the loop body that creates every remote object on the first
\* member (`torch_rpc.remote(names[0], ...)`) while keying by each name.
remote_on_role_loop_first_member ==
    /\ pc = "dispatch" /\ op = "remote_on_role"
    /\ idx <= Len(names)
    /\ rrefs' = DictSet(rrefs, names[idx], remote(names[1], func))
    /\ sent' = Append(sent, [kind |-> "remote", to |-> names[1], func |-> func,
                             timeout |-> None, dispatched |-> TRUE])
    /\ idx' = idx + 1
    /\ UNCHANGED <<startup, registry, directory, op, role, func, timeout_arg, timeout,
                   pc, names, futs, results, info, status, error, ncalls>>

\* One iteration of `for name in get_worker_names(role)` (lines 165-167).
remote_on_role_loop ==
    /\ pc = "dispatch" /\ op = "remote_on_role"
    /\ idx <= Len(names)
    /\ rrefs' = DictSet(rrefs, names[idx], remote(names[idx], func))
    /\ sent' = Append(sent, [kind |-> "remote", to |-> names[idx], func |-> func,
                             timeout |-> None, dispatched |-> TRUE])
    /\ idx' = idx + 1
    /\ UNCHANGED <<startup, registry, directory, op, role, func, timeout_arg, timeout,
                   pc, names, futs, results, info, status, error, ncalls>>

\* `return rrefs` (line 168)
remote_on_role_return ==
    /\ pc = "dispatch" /\ op = "remote_on_role"
    /\ idx > Len(names)
    /\ pc' = "idle" /\ status' = "returned"
    /\ UNCHANGED <<startup, registry, directory, op, role, func, timeout_arg, timeout,
                   names, idx, futs, rrefs, results, info, error, sent, ncalls>>

\* -------------------------------------------------- accessors, as calls
\* The application keeps only what its latest call returned: the locals and
\* collections of earlier fan-out calls are dropped.
Forget ==
    /\ func' = "" /\ timeout_arg' = None /\ timeout' = None /\ idx' = 1
    /\ futs' = <<>> /\ rrefs' = <<>> /\ results' = <<>>

\* Variant of the get_role_info call that registers a role it does not
\* know with an empty member list (a defaultdict-style lookup).
get_role_info_call_registering(r) ==
    /\ pc = "idle" /\ ncalls < MaxCalls
    /\ op' = "get_role_info" /\ role' = r
    /\ sent' = <<>> /\ ncalls' = ncalls + 1
    /\ IF RaisesUnknownRole(r)
       THEN status' = "raised" /\ error' = "UnknownRole" /\ info' = NoInfo
       ELSE status' = "returned" /\ error' = "" /\ info' = RoleInfoOf(r)
    /\ Forget /\ names' = <<>>
    /\ directory' = IF Declared(r) THEN directory
                    ELSE [x \in DOMAIN directory \cup {r} |->
                             IF x = r THEN <<>> ELSE directory[x]]
    /\ UNCHANGED <<startup, registry, pc>>

\* The application calls get_role_info(role) (lines 100-105).
get_role_info_call(r) ==
    /\ pc = "idle" /\ ncalls < MaxCalls
    /\ op' = "get_role_info" /\ role' = r
    /\ sent' = <<>> /\ ncalls' = ncalls + 1
    /\ IF RaisesUnknownRole(r)
       THEN status' = "raised" /\ error' = "UnknownRole" /\ info' = NoInfo
       ELSE status' = "returned" /\ error' = "" /\ info' = RoleInfoOf(r)
    /\ Forget /\ names' = <<>>
    /\ UNCHANGED <<startup, registry, directory, pc>>

\* The application calls get_worker_names(role) (lines 93-97).
get_worker_names_call(r) ==
    /\ pc = "idle" /\ ncalls < MaxCalls
    /\ op' = "get_worker_names" /\ role' = r
    /\ sent' = <<>> /\ ncalls' = ncalls + 1
    /\ IF RaisesUnknownRole(r)
       THEN /\ status' = "raised" /\ error' = "UnknownRole"
            /\ names' = <<>> /\ info' = NoInfo
       ELSE /\ status' = "returned" /\ error' = ""
            /\ names' = get_worker_names(r) /\ info' = RoleInfoOf(r)
    /\ Forget
    /\ UNCHANGED <<startup, registry, directory, pc>>

\* ------------------------------------------------------------- wait_all
\* Dicts of futures the application can build itself, by calling the
\* Transport directly for a list of workers, and pass to wait_all.
InputFutures ==
    {[i \in 1..Len(ws) |-> [key |-> ws[i],
                            val |-> rpc_async(ws[i], "echo", get_rpc_timeout, reach[i])]] :
        ws \in {<<"w0", "w1">>}, reach \in [1..2 -> BOOLEAN]}

\* The application calls wait_all(futures) (lines 121-124) with the dict it
\* holds from rpc_async_on_role (held) or with one it built itself.
wait_all_call(held, fs) ==
    /\ pc = "idle" /\ ncalls < MaxCalls
    /\ IF held THEN op = "rpc_async_on_role" /\ status = "returned" /\ fs = futs
               ELSE fs \in InputFutures
    /\ op' = "wait_all" /\ pc' = "wait" /\ idx' = 1 /\ results' = <<>>
    /\ futs' = fs
    /\ status' = "none" /\ error' = "" /\ sent' = <<>>
    /\ ncalls' = ncalls + 1
    /\ role' = "" /\ func' = "" /\ timeout_arg' = None /\ timeout' = None
    /\ names' = <<>> /\ rrefs' = <<>> /\ info' = NoInfo
    /\ UNCHANGED <<startup, registry, directory>>

\* The application calls wait_all(futures) with a list: the futures of the
\* dict it holds (`list(futs.values())`) or of one it built itself.  The
\* else branch (lines 127-130) sets results = [] and evaluates
\* futures.items(), which a list does not have: AttributeError leaves
\* wait_all before any future is waited on.
wait_all_list_call(held, fs) ==
    /\ pc = "idle" /\ ncalls < MaxCalls
    /\ IF held THEN op = "rpc_async_on_role" /\ status = "returned" /\ fs = futs
               ELSE fs \in InputFutures
    /\ op' = "wait_all_list" /\ pc' = "idle" /\ idx' = 1 /\ results' = <<>>
    /\ futs' = fs
    /\ status' = "raised" /\ error' = "AttributeError" /\ sent' = <<>>
    /\ ncalls' = ncalls + 1
    /\ role' = "" /\ func' = "" /\ timeout_arg' = None /\ timeout' = None
    /\ names' = <<>> /\ rrefs' = <<>> /\ info' = NoInfo
    /\ UNCHANGED <<startup, registry, directory>>

\* One iteration of `for name, fut in futures.items()` (lines 125-126):
\* fut.wait() blocks while the future is pending, returns its value, or
\* raises its error, which leaves wait_all (and rpc_sync_on_role).
wait_all_loop ==
    /\ pc = "wait" /\ idx <= Len(futs)
    /\ Terminal(futs[idx].val)
    /\ IF futs[idx].val.state = "Resolved"
       THEN /\ results' = DictSet(results, futs[idx].key, futs[idx].val.value)
            /\ idx' = idx + 1
            /\ UNCHANGED <<pc, status, error>>
       ELSE /\ status' = "raised" /\ error' = futs[idx].val.error
            /\ pc' = "idle" /\ results' = <<>>
            /\ UNCHANGED idx
    /\ UNCHANGED <<startup, registry, directory, op, role, func, timeout_arg, timeout,
                   names, futs, rrefs, info, sent, ncalls>>

\* Variant of the return that sits inside the loop (`return results`
\* indented one level too deep): wait_all returns after its first entry.
wait_all_return_in_loop ==
    /\ pc = "wait" /\ (idx > Len(futs) \/ idx > 1)
    /\ pc' = "idle" /\ status' = "returned"
    /\ UNCHANGED <<startup, registry, directory, op, role, func, timeout_arg, timeout,
                   names, idx, futs, rrefs, results, info, error, sent, ncalls>>

\* Variant of the return that needs at least one entry to have been
\* waited on before it returns.
wait_all_return_after_one ==
    /\ pc = "wait" /\ idx > Len(futs) /\ idx > 1
    /\ pc' = "idle" /\ status' = "returned"
    /\ UNCHANGED <<startup, registry, directory, op, role, func, timeout_arg, timeout,
                   names, idx, futs, rrefs, results, info, error, sent, ncalls>>

\* `return results` (line 131)
wait_all_return ==
    /\ pc = "wait" /\ idx > Len(futs)
    /\ pc' = "idle" /\ status' = "returned"
    /\ UNCHANGED <<startup, registry, directory, op, role, func, timeout_arg, timeout,
                   names, idx, futs, rrefs, results, info, error, sent, ncalls>>

\* ------------------------------------------ Transport: futures complete
\* Position of key w in dict d (keys are unique).
DictIndex(d, w) == CHOOSE i \in 1..Len(d) : d[i].key = w

SetFut(w, fut) == [futs EXCEPT ![DictIndex(futs, w)] = [key |-> w, val |-> fut]]

PendingFut(w) == DictHas(futs, w) /\ futs[DictIndex(futs, w)].val.state = "Pending"

\* The remote handler on worker w answers with its value.
Respond(w) ==
    /\ PendingFut(w)
    /\ futs' = SetFut(w, [futs[DictIndex(futs, w)].val EXCEPT
                              !.state = "Resolved", !.value = ValueOn[w]])
    /\ UNCHANGED <<startup, registry, directory, op, role, func, timeout_arg, timeout,
                   pc, names, idx, rrefs, results, info, status, error, sent, ncalls>>

\* The remote handler on w raises, or the connection breaks after dispatch.
Fail(w) ==
    /\ PendingFut(w)
    /\ futs' = SetFut(w, [futs[DictIndex(futs, w)].val EXCEPT
                              !.state = "Failed", !.error = "RemoteError"])
    /\ UNCHANGED <<startup, registry, directory, op, role, func, timeout_arg, timeout,
                   pc, names, idx, rrefs, results, info, status, error, sent, ncalls>>

\* The deadline the call to w carries passes before an answer.
TimeOut(w) ==
    /\ PendingFut(w)
    /\ futs[DictIndex(futs, w)].val.timeout # None
    /\ futs' = SetFut(w, [futs[DictIndex(futs, w)].val EXCEPT
                              !.state = "TimedOut", !.error = "CallTimedOut"])
    /\ UNCHANGED <<startup, registry, directory, op, role, func, timeout_arg, timeout,
                   pc, names, idx, rrefs, results, info, status, error, sent, ncalls>>

\* The remote object of the RRef owned by w gets created.
RemoteCreated(w) ==
    /\ DictHas(rrefs, w) /\ rrefs[DictIndex(rrefs, w)].val.state = "Pending"
    /\ rrefs' = [rrefs EXCEPT ![DictIndex(rrefs, w)] =
                    [key |-> w, val |-> [rrefs[DictIndex(rrefs, w)].val EXCEPT
                                             !.state = "Created"]]]
    /\ UNCHANGED <<startup, registry, directory, op, role, func, timeout_arg, timeout,
                   pc, names, idx, futs, results, info, status, error, sent, ncalls>>

\* The directory changing under the application between calls
\* (hypothetical: the specification's "even if the directory were mutated").
DirectoryChange ==
    /\ pc = "idle"
    /\ directory' \in Directories \ {directory}
    /\ UNCHANGED <<startup, registry, op, role, func, timeout_arg, timeout, pc, names,
                   idx, futs, rrefs, results, info, status, error, sent, ncalls>>

\* ------------------------------------------------------ process start-up
\* Entry of init_rpc in process p (lines 60-64): default-construct the
\* backend options when none are given, then read RANK and WORLD_SIZE,
\* which raises when the environment does not define them.
init_rpc_call(p, given, env_ok) ==
    /\ ipc[p] = "start"
    /\ options' = [options EXCEPT ![p] = IF given THEN "given" ELSE "constructed"]
    /\ ipc' = [ipc EXCEPT ![p] = IF env_ok THEN "env" ELSE "raised"]
    /\ UNCHANGED <<api, autograd, store, app>>

\* dist_autograd._init(rank) (line 73)
dist_autograd_init(p) ==
    /\ ipc[p] = "env"
    /\ autograd' = autograd \cup {p}
    /\ ipc' = [ipc EXCEPT ![p] = "autograd"]
    /\ UNCHANGED <<api, options, store, app>>

\* Variant of init_rpc that goes into the RPC backend initialization
\* without having initialized autograd first (autograd moved after RPC).
init_rpc_backend_join_before_autograd(p) ==
    /\ ipc[p] \in {"env", "autograd"}
    /\ store' = store \cup {p}
    /\ ipc' = [ipc EXCEPT ![p] = "rpc_sync"]
    /\ UNCHANGED <<api, options, autograd, app>>

\* api._init_rpc_backend(...) (line 76), first half: the process announces
\* itself in the store and starts waiting for the others.
init_rpc_backend_join(p) ==
    /\ ipc[p] = "autograd"
    /\ store' = store \cup {p}
    /\ ipc' = [ipc EXCEPT ![p] = "rpc_sync"]
    /\ UNCHANGED <<api, options, autograd, app>>

\* api._init_rpc_backend(...) (line 76), second half: all world_size
\* processes are in the store, the call returns and so does init_rpc.
init_rpc_backend_return(p) ==
    /\ ipc[p] = "rpc_sync"
    /\ store = Procs
    /\ ipc' = [ipc EXCEPT ![p] = "returned"]
    /\ UNCHANGED <<api, options, autograd, store, app>>

\* init_app in process p (lines 79-85): a placeholder, `pass`.  It may be
\* called before or after init_rpc.
init_app(p) ==
    /\ ipc[p] \in {"start", "returned"} /\ p \notin app
    /\ app' = app \cup {p}
    /\ UNCHANGED <<api, ipc, options, autograd, store>>

StartupInit ==
    /\ ApiInit /\ registry = "placeholder" /\ directory = DirA
    /\ ipc = [p \in Procs |-> "start"]
    /\ options = [p \in Procs |-> "unset"]
    /\ autograd = {} /\ store = {} /\ app = {}

StartupNext ==
    \/ \E p \in Procs, given \in BOOLEAN, env_ok \in BOOLEAN : init_rpc_call(p, given, env_ok)
    \/ \E p \in Procs : dist_autograd_init(p)
    \/ \E p \in Procs : init_rpc_backend_join(p)
    \/ \E p \in Procs : init_rpc_backend_return(p)
    \/ \E p \in Procs : init_app(p)

StartupSpec == StartupInit /\ [][StartupNext]_vars

Next ==
    \/ \E o \in {"rpc_async_on_role", "rpc_sync_on_role"}, r \in RoleNames,
          f \in Funcs, t \in Timeouts : rpc_async_on_role_call(o, r, f, t)
    \/ \E reachable \in BOOLEAN : rpc_async_on_role_loop(reachable)
    \/ rpc_async_on_role_return
    \/ rpc_sync_on_role_wait
    \/ \E r \in RoleNames, f \in Funcs : remote_on_role_call(r, f)
    \/ remote_on_role_loop
    \/ remote_on_role_return
    \/ \E r \in RoleNames : get_role_info_call(r)
    \/ \E r \in RoleNames : get_worker_names_call(r)
    \/ \E held \in BOOLEAN, fs \in InputFutures \cup {futs} : wait_all_call(held, fs)
    \/ \E held \in BOOLEAN, fs \in InputFutures \cup {futs} : wait_all_list_call(held, fs)
    \/ wait_all_loop
    \/ wait_all_return
    \/ \E w \in Workers : Respond(w)
    \/ \E w \in Workers : Fail(w)
    \/ \E w \in Workers : TimeOut(w)
    \/ \E w \in Workers : RemoteCreated(w)
    \/ DirectoryChange

Spec == Init /\ [][Next]_vars

\* The Transport enforces the deadline each call carries: a pending call
\* with a deadline does not stay pending forever.
FairSpec == Spec /\ \A w \in Workers : WF_vars(TimeOut(w))

\* ------------------------------------------------------ claim vocabulary
\* Names of the members of a RoleInfo, in role_rank order.
MemberNames(ri) == [i \in 1..Len(ri.worker_infos) |-> ri.worker_infos[i].name]

SeqRange(q) == {q[i] : i \in 1..Len(q)}

\* rpc_async_on_role has returned its dict to the application.
AsyncReturned == op = "rpc_async_on_role" /\ pc = "idle" /\ status = "returned"

\* wait_all (called directly or through rpc_sync_on_role) is over.
WaitEnded == op \in {"wait_all", "rpc_sync_on_role"} /\ pc = "idle" /\ status # "none"
                /\ error # "UnknownRole"

FailedKeys == {futs[i].key : i \in {j \in 1..Len(futs) :
                                      futs[j].val.state \in {"Failed", "TimedOut"}}}

AllTerminal == \A i \in 1..Len(futs) : Terminal(futs[i].val)

AllResolved == \A i \in 1..Len(futs) : futs[i].val.state = "Resolved"

\* The failures the exception leaving wait_all identifies: fut.wait() of the
\* entry at idx re-raises that one future's error.
NamedFailures == IF status = "raised" /\ idx \in 1..Len(futs)
                 THEN {<<futs[idx].key, error>>} ELSE {}

C2_AllFailuresNamed ==
    (WaitEnded /\ AllTerminal /\ FailedKeys # {}) =>
        /\ status = "raised"
        /\ NamedFailures = {<<futs[i].key, futs[i].val.error>> :
                               i \in {j \in 1..Len(futs) : futs[j].key \in FailedKeys}}
        /\ \A i \in 1..Len(futs) : futs[i].val.state = "Resolved" =>
               (op = "wait_all" \/ DictHas(results, futs[i].key))

\* ------------------------------------------------------------------- C3
\* C3: when wait_all is over, normally or with an error, no entry of its
\* input is still Pending.
C3_NoPendingWhenWaitEnds ==
    [][(pc = "wait" /\ pc' = "idle") => \A i \in 1..Len(futs') : Terminal(futs'[i].val)]_vars

\* ------------------------------------------------------------------- C4
\* C4: when every entry resolved, wait_all returns a dict with the keys of
\* its input in the same order, each key with the value of its own future.
C4_ResultsMirrorInput ==
    (WaitEnded /\ AllResolved) =>
        /\ status = "returned"
        /\ DictKeys(results) = DictKeys(futs)
        /\ \A i \in 1..Len(futs) : results[i].val = futs[i].val.value

\* wait_all returned two different values for two keys.
C4_Witness ==
    /\ WaitEnded /\ AllResolved /\ Len(futs) = 2
    /\ results[1].val # results[2].val

\* ------------------------------------------------------------------- C5
\* C5: a fan-out call or an accessor given a role no worker declared fails
\* with UnknownRole, having issued no Transport call, and returns nothing.
C5_UnknownRoleFails ==
    (op \in {"rpc_async_on_role", "rpc_sync_on_role", "remote_on_role",
             "get_role_info", "get_worker_names"} /\ ~Declared(role)) =>
        status = "raised" /\ error = "UnknownRole" /\ sent = <<>>

FirstUnresolved(fs) ==
    CHOOSE j \in 1..Len(fs) : /\ fs[j].val.state # "Resolved"
                              /\ \A i \in 1..(j - 1) : fs[i].val.state = "Resolved"

WaitAllOutcomeIs(fs, st, err, res) ==
    IF \A i \in 1..Len(fs) : fs[i].val.state = "Resolved"
    THEN /\ st = "returned"
         /\ res = [i \in 1..Len(fs) |-> [key |-> fs[i].key, val |-> fs[i].val.value]]
    ELSE /\ st = "raised"
         /\ Terminal(fs[FirstUnresolved(fs)].val)
         /\ err = fs[FirstUnresolved(fs)].val.error

\* The Transport calls rpc_async_on_role issues for a call with these
\* arguments: one per member name, in order, with the timeout defaulted.
AsyncCalls(ns, f, t) ==
    [i \in 1..Len(ns) |-> [to |-> ns[i], func |-> f,
                           timeout |-> IF t = None THEN get_rpc_timeout ELSE t]]

SentCalls == [i \in 1..Len(sent) |-> [to |-> sent[i].to, func |-> sent[i].func,
                                      timeout |-> sent[i].timeout]]

SyncEnded == op = "rpc_sync_on_role" /\ pc = "idle" /\ status # "none"
                /\ error # "UnknownRole"

C12_RoleInfoMatchesDeclaration ==
    [][(op' = "get_role_info" /\ ncalls' = ncalls + 1 /\ Declared(role'))
        => /\ status' = "returned"
           /\ Len(info'.worker_infos) = info'.role_world_size
           /\ info'.role_world_size = Len(directory[role'])
           /\ \A i \in 1..Len(info'.worker_infos) :
                 info'.worker_infos[i].role_rank = i - 1]_vars

\* ------------------------------------------------------------------ C14
\* What a call get_role_info(r) made in this state gives the caller.
GetRoleInfoOutcome(r) == <<RaisesUnknownRole(r), RoleInfoOf(r)>>

RemoteReturned == op = "remote_on_role" /\ pc = "idle" /\ status = "returned"

EmptyFanout ==
    /\ op \in {"rpc_async_on_role", "rpc_sync_on_role", "remote_on_role"}
    /\ error # "UnknownRole" /\ info.worker_infos = <<>>

\* C19: for a role with an empty member list, rpc_async_on_role and
\* remote_on_role issue no Transport call and return an empty dict, and
\* rpc_sync_on_role returns an empty dict without having to wait.
C19_EmptyRoleFanout ==
    EmptyFanout =>
        /\ sent = <<>> /\ futs = <<>> /\ rrefs = <<>> /\ results = <<>>
        /\ status # "raised"
        /\ pc = "idle" => status = "returned"
        /\ pc = "dispatch" =>
              ENABLED (rpc_async_on_role_return \/ rpc_sync_on_role_wait
                          \/ remote_on_role_return)
        /\ pc = "wait" => ENABLED wait_all_return

\* rpc_sync_on_role has returned the empty dict for a role without members.
C19_Witness ==
    /\ EmptyFanout /\ op = "rpc_sync_on_role" /\ pc = "idle"
    /\ status = "returned" /\ results = <<>> /\ role = "trainer"

\* ------------------------------------------------------------------ C16
\* C16: wait_all given a list of futures that all resolve returns a list of
\* the same length whose i-th element is the value of the i-th future.
C16_ListInListOut ==
    (op = "wait_all_list" /\ pc = "idle" /\ Len(futs) > 0 /\ AllResolved) =>
        /\ status = "returned"
        /\ Len(results) = Len(futs)
        /\ \A i \in 1..Len(futs) : results[i].val = futs[i].val.value

\* ------------------------------------------------------------------ C13
\* The worker names a process can reach through its directory once its
\* init_app has returned: whatever get_role_info gives for the roles.
HeldIdentities(p) ==
    UNION {SeqRange(MemberNames(get_role_info(r))) : r \in DOMAIN directory}

\* C13: every process whose init_app has returned holds a directory with
\* all world_size identities, the same as every other such process.
C13_IdenticalFullDirectories ==
    \A p \in app :
        /\ Cardinality(HeldIdentities(p)) = WorldSize
        /\ \A q \in app : HeldIdentities(q) = HeldIdentities(p)

\* ------------------------------------------------------------------ C18
\* C18: a process enters the RPC backend initialization only after its
\* own autograd initialization, and when init_rpc has returned in any
\* process, autograd is initialized in every one of the processes.
C18_AutogradBeforeRpcEverywhere ==
    /\ store \subseteq autograd
    /\ \A p \in Procs : ipc[p] \in {"rpc_sync", "returned"} => p \in autograd
    /\ (\E p \in Procs : ipc[p] = "returned") => autograd = Procs

\* init_rpc has returned in one process while another is still inside the
\* RPC backend initialization.
C18_Witness ==
    /\ \E p \in Procs : ipc[p] = "returned"
    /\ \E q \in Procs : ipc[q] = "rpc_sync"
    /\ autograd = Procs
====
